---- MODULE Spec2Model ----
(***************************************************************************)
(* Model of src/compiler/translator/Cache.cpp (ANGLE shader translator):   *)
(* the process-wide TCache singleton that interns TType descriptors under  *)
(* a packed TypeKey, guarded by sCacheMutex and allocating its descriptors *)
(* from a private pool allocator installed through TScopedAllocator.       *)
(*                                                                         *)
(* Threads are the callers of TCache::initialize, TCache::destroy and      *)
(* TCache::getType.  Each statement of those functions is one action, so   *)
(* that every interleaving the mutex allows (and every one it must forbid) *)
(* is a behaviour of the model.                                            *)
(***************************************************************************)
EXTENDS Integers, Sequences, FiniteSets, TLC

\* ------------------------------------------------------------------ bounds

\* Number of caller threads.
NumThreads == 2
\* Number of TCache instances `new TCache()` may construct in one behaviour.
MaxInst == 2
\* Number of TType descriptors `new TType(...)` may construct in one behaviour.
MaxTypes == 3

Threads == 1..NumThreads

\* ------------------------------------------------------- program constants

\* nullptr: the value of sCache when no instance exists; also the null
\* TType pointer and the end() iterator of the local variables.
Null == 0

\* std::numeric_limits<EnumComponentType>::max(), EnumComponentType being
\* the one-byte unsigned type of the key's components.
MaxEnumValue == 255

\* The attribute tuples <<basicType, precision, qualifier, primarySize,
\* secondarySize>> the threads pass to getType.  The first two are the
\* (Float, High, In, 1, 1) / (Int, High, In, 1, 1) pair, which differs in
\* basicType alone; the third differs from the first in secondarySize alone.
CallTuples == { <<1, 3, 11, 1, 1>>, <<2, 3, 11, 1, 1>>, <<1, 3, 11, 1, 2>> }

\* The values the fields take when the key encoder is exercised on its own.
\* The enumerated parameters: both ends of the one-byte domain, a value in
\* between, and MaxEnumValue + 1, the first value outside the domain.  The
\* sizes are unsigned char parameters and cannot leave the domain.
EnumVals == {0, 1, MaxEnumValue, MaxEnumValue + 1}
SizeVals == {1, MaxEnumValue}

KeyTuples == EnumVals \X EnumVals \X EnumVals \X SizeVals \X SizeVals

\* The attribute tuples whose fields are all representable in one byte.
InDomain(a) == \A i \in 1..5 : a[i] \in 0..MaxEnumValue

\* The two threads whose encodings are compared.
KeyThreads == {1, 2}

NoArgs == <<0, 0, 0, 0, 0>>

\* ------------------------------------------------------------------- state

VARIABLES
    sCache,               \* TCache::sCache: Null or the id of the instance
    caches,               \* heap of TCache objects: id -> [mTypes, live]
    types,                \* heap of TType objects: id -> descriptor record
    globalPoolAllocator,  \* the ambient allocation target
    mutex,                \* sCacheMutex: Null (free) or the owning thread
    faulted,              \* the process dereferenced a null sCache
    pc,                   \* each thread's position
    args,                 \* getType's five parameters
    key,                  \* getType's local `key` (TypeKey::value)
    it,                   \* getType's local `it` (it->second, Null for end())
    type,                 \* getType's local `type`
    mPreviousAllocator,   \* TScopedAllocator::mPreviousAllocator
    ret,                  \* the value of the return statement reached
    early,                \* history: the tuple was not cached when t called
    retNow,               \* history: <<args, object>> returned since the
                          \*   last execution of destroy()'s body
    retOld,               \* history: <<args, object>> returned before it
    atEntry               \* history: the ambient target when t's function
                          \*   took the mutex

vars == << sCache, caches, types, globalPoolAllocator, mutex, faulted, pc,
           args, key, it, type, mPreviousAllocator, ret, early,
           retNow, retOld, atEntry >>

shared == << sCache, caches, types, globalPoolAllocator >>
locals == << args, key, it, type, mPreviousAllocator, ret, early >>
history == << retNow, retOld, atEntry >>

\* ----------------------------------------------------------------- helpers

\* The allocation targets: the pool the callers' compilation installed, and
\* the mAllocator member of each TCache instance.
CallerPool == <<"caller", 0>>
CallerPools == {CallerPool, <<"caller", 1>>}
NoPool == <<"none", 0>>
CacheArena(i) == <<"cache", i>>

EmptyMap == [k \in {} |-> Null]

\* static_cast<EnumComponentType>(x): conversion to the one-byte unsigned type.
Narrow(x) == x % (MaxEnumValue + 1)

\* sizeof(TypeKey::value) in bytes, and the number of components.
ValueBytes == 8
NumComponents == 5

\* TypeKey::value after `value = 0`.
ZeroValue == [i \in 1..ValueBytes |-> 0]

\* The contents the storage of a TypeKey may hold before its constructor
\* runs: the object is a local variable, its bytes are indeterminate.
Indeterminate ==
    { ZeroValue, [i \in 1..ValueBytes |-> MaxEnumValue],
      [i \in 1..ValueBytes |-> i] }

\* A mutant of the clearing: `value = 0` is missing.
ClearValueMissing(mem) == mem

\* value = 0: every byte of the key, those no component covers included.
ClearValue(mem) == ZeroValue

\* A mutant of the component writes: secondarySize is never written.
WriteComponentsNoSecondary(v, a) ==
    [i \in 1..ValueBytes |-> IF i < NumComponents THEN Narrow(a[i]) ELSE v[i]]

\* A mutant of the component writes: basicType is never written.
WriteComponentsNoBasicType(v, a) ==
    [i \in 1..ValueBytes |->
        IF 1 < i /\ i <= NumComponents THEN Narrow(a[i]) ELSE v[i]]

\* components.basicType = static_cast<EnumComponentType>(basicType); ...
\* components.secondarySize = secondarySize: the five one-byte components
\* written over the first bytes of value (components and value are the
\* members of one union); the other bytes keep what they held.
WriteComponents(v, a) ==
    [i \in 1..ValueBytes |-> IF i <= NumComponents THEN Narrow(a[i]) ELSE v[i]]

\* TCache::TypeKey::TypeKey run on storage that held mem: value = 0, then
\* the components.  The key is value, held here as its bytes in memory
\* order: two values are equal exactly when their bytes are.
TypeKeyAt(mem, a) == WriteComponents(ClearValue(mem), a)

\* The key of attribute tuple a.
TypeKey(a) == TypeKeyAt(ZeroValue, a)

\* new TCache(): an empty mTypes and a fresh mAllocator.  `deletes` counts
\* the delete expressions applied to the object.
NewTCache == [mTypes |-> EmptyMap, live |-> TRUE, deletes |-> 0]

\* The mapping of the instance sCache points to.
mTypes == caches[sCache].mTypes

\* std::map::insert: adds the pair unless the key is present already.
MapInsert(m, k, v) ==
    IF k \in DOMAIN m THEN m
    ELSE [x \in DOMAIN m \cup {k} |-> IF x = k THEN v ELSE m[x]]

\* ~TCache(): the mTypes map is destroyed and mAllocator's pages are freed,
\* which releases every object allocated from it.
ReleaseArena(ts, i) ==
    [o \in DOMAIN ts |->
        IF ts[o].arena = CacheArena(i) THEN [ts[o] EXCEPT !.live = FALSE]
        ELSE ts[o]]

GetTypePcs == {"gt_lock", "gt_find", "gt_hit", "gt_scoped", "gt_new",
               "gt_realize", "gt_insert", "gt_return", "gt_restore",
               "gt_unlock"}
InitializePcs == {"in_lock", "in_body", "in_unlock"}
DestroyPcs == {"de_lock", "de_body", "de_unlock"}
LockPcs == {"gt_lock", "in_lock", "de_lock"}
UnlockPcs == {"gt_unlock", "in_unlock", "de_unlock"}

\* The positions between the construction and the destruction of the
\* function's AutoEnterCacheMutex, i.e. inside the function's body.
BodyPcs == (GetTypePcs \cup InitializePcs \cup DestroyPcs) \ LockPcs

AfterLock(p) ==
    CASE p = "gt_lock" -> "gt_find"
      [] p = "in_lock" -> "in_body"
      [] p = "de_lock" -> "de_body"

Running == ~faulted

\* ------------------------------------------------------------------- Init

Init ==
    /\ sCache = Null
    /\ caches = << >>
    /\ types = << >>
    /\ globalPoolAllocator \in CallerPools
    /\ mutex = Null
    /\ faulted = FALSE
    /\ pc = [t \in Threads |-> "idle"]
    /\ args = [t \in Threads |-> NoArgs]
    /\ key = [t \in Threads |-> ZeroValue]
    /\ it = [t \in Threads |-> Null]
    /\ type = [t \in Threads |-> Null]
    /\ mPreviousAllocator = [t \in Threads |-> NoPool]
    /\ ret = [t \in Threads |-> Null]
    /\ early = [t \in Threads |-> FALSE]
    /\ retNow = {}
    /\ retOld = {}
    /\ atEntry = [t \in Threads |-> NoPool]

\* ------------------------------------------------- AutoEnterCacheMutex

\* A lock mutant: the constructor returns without waiting for the mutex.
LockNoWait(t) ==
    /\ Running
    /\ pc[t] \in LockPcs
    /\ mutex' = t
    /\ pc' = [pc EXCEPT ![t] = AfterLock(pc[t])]
    /\ atEntry' = [atEntry EXCEPT ![t] = globalPoolAllocator]
    /\ UNCHANGED << shared, faulted, locals, retNow, retOld >>

\* AutoEnterCacheMutex::AutoEnterCacheMutex: sCacheMutex.Lock() blocks until
\* the mutex is free and takes it.
Lock(t) ==
    /\ Running
    /\ pc[t] \in LockPcs
    /\ mutex = Null
    /\ mutex' = t
    /\ pc' = [pc EXCEPT ![t] = AfterLock(pc[t])]
    /\ atEntry' = [atEntry EXCEPT ![t] = globalPoolAllocator]
    /\ UNCHANGED << shared, faulted, locals, retNow, retOld >>

\* An unlock mutant: the hit path returns without releasing the mutex.
UnlockNotOnHit(t) ==
    /\ Running
    /\ pc[t] \in UnlockPcs
    /\ mutex' = IF pc[t] = "gt_unlock" /\ it[t] # Null THEN mutex ELSE Null
    /\ pc' = [pc EXCEPT ![t] = "idle"]
    /\ retNow' = IF pc[t] = "gt_unlock"
                 THEN retNow \cup { << args[t], ret[t] >> }
                 ELSE retNow
    /\ args' = [args EXCEPT ![t] = NoArgs]
    /\ key' = [key EXCEPT ![t] = ZeroValue]
    /\ it' = [it EXCEPT ![t] = Null]
    /\ type' = [type EXCEPT ![t] = Null]
    /\ mPreviousAllocator' = [mPreviousAllocator EXCEPT ![t] = NoPool]
    /\ ret' = [ret EXCEPT ![t] = Null]
    /\ early' = [early EXCEPT ![t] = FALSE]
    /\ atEntry' = [atEntry EXCEPT ![t] = NoPool]
    /\ UNCHANGED << shared, faulted, retOld >>

\* AutoEnterCacheMutex::~AutoEnterCacheMutex: sCacheMutex.Unlock(), the last
\* step of each of the three functions.  A getType that returns hands its
\* return value to the caller here.
Unlock(t) ==
    /\ Running
    /\ pc[t] \in UnlockPcs
    /\ mutex' = Null
    /\ pc' = [pc EXCEPT ![t] = "idle"]
    /\ retNow' = IF pc[t] = "gt_unlock"
                 THEN retNow \cup { << args[t], ret[t] >> }
                 ELSE retNow
    /\ args' = [args EXCEPT ![t] = NoArgs]
    /\ key' = [key EXCEPT ![t] = ZeroValue]
    /\ it' = [it EXCEPT ![t] = Null]
    /\ type' = [type EXCEPT ![t] = Null]
    /\ mPreviousAllocator' = [mPreviousAllocator EXCEPT ![t] = NoPool]
    /\ ret' = [ret EXCEPT ![t] = Null]
    /\ early' = [early EXCEPT ![t] = FALSE]
    /\ atEntry' = [atEntry EXCEPT ![t] = NoPool]
    /\ UNCHANGED << shared, faulted, retOld >>

\* ---------------------------------------------------- TCache::initialize

\* The calls in flight that may still construct an instance / a descriptor.
InitializeInFlight == Cardinality({t \in Threads : pc[t] \in InitializePcs})
GetTypeInFlight == Cardinality({t \in Threads : pc[t] \in GetTypePcs})

\* A thread calls TCache::initialize().
InitializeCall(t) ==
    /\ Running
    /\ pc[t] = "idle"
    /\ Len(caches) + InitializeInFlight < MaxInst
    /\ pc' = [pc EXCEPT ![t] = "in_lock"]
    /\ UNCHANGED << shared, mutex, faulted, locals, history >>

\* An initialize mutant: the null test is missing, every call constructs.
InitializeAlways(t) ==
    /\ Running
    /\ pc[t] = "in_body"
    /\ caches' = Append(caches, NewTCache)
    /\ sCache' = Len(caches) + 1
    /\ pc' = [pc EXCEPT ![t] = "in_unlock"]
    /\ UNCHANGED << types, globalPoolAllocator, mutex, faulted, locals,
                    history >>

\* An initialize mutant: an existing instance is deleted and replaced.
InitializeRecreate(t) ==
    /\ Running
    /\ pc[t] = "in_body"
    /\ IF sCache = Null
       THEN /\ caches' = Append(caches, NewTCache)
            /\ types' = types
       ELSE /\ caches' = Append([caches EXCEPT ![sCache] =
                                    [mTypes |-> EmptyMap, live |-> FALSE,
                                     deletes |-> @.deletes + 1]],
                                NewTCache)
            /\ types' = ReleaseArena(types, sCache)
    /\ sCache' = Len(caches) + 1
    /\ pc' = [pc EXCEPT ![t] = "in_unlock"]
    /\ UNCHANGED << globalPoolAllocator, mutex, faulted, locals, history >>

\* if (sCache == nullptr) { sCache = new TCache(); }
InitializeBody(t) ==
    /\ Running
    /\ pc[t] = "in_body"
    /\ IF sCache = Null
       THEN /\ caches' = Append(caches, NewTCache)
            /\ sCache' = Len(caches) + 1
       ELSE UNCHANGED << sCache, caches >>
    /\ pc' = [pc EXCEPT ![t] = "in_unlock"]
    /\ UNCHANGED << types, globalPoolAllocator, mutex, faulted, locals,
                    history >>

\* ------------------------------------------------------- TCache::destroy

\* A thread calls TCache::destroy().
DestroyCall(t) ==
    /\ Running
    /\ pc[t] = "idle"
    /\ pc' = [pc EXCEPT ![t] = "de_lock"]
    /\ UNCHANGED << shared, mutex, faulted, locals, history >>

\* A destroy mutant: the singleton is not deleted and stays installed.
DestroyNothing(t) ==
    /\ Running
    /\ pc[t] = "de_body"
    /\ retOld' = retOld \cup retNow
    /\ retNow' = {}
    /\ pc' = [pc EXCEPT ![t] = "de_unlock"]
    /\ UNCHANGED << shared, mutex, faulted, locals, atEntry >>

\* A destroy mutant: the pointer is cleared but the instance is not deleted.
DestroyLeak(t) ==
    /\ Running
    /\ pc[t] = "de_body"
    /\ sCache' = Null
    /\ retOld' = retOld \cup retNow
    /\ retNow' = {}
    /\ pc' = [pc EXCEPT ![t] = "de_unlock"]
    /\ UNCHANGED << caches, types, globalPoolAllocator, mutex, faulted,
                    locals, atEntry >>

\* A destroy mutant: plain `delete sCache`, the pointer keeps its value.
DestroyDangling(t) ==
    /\ Running
    /\ pc[t] = "de_body"
    /\ IF sCache # Null
       THEN /\ caches' = [caches EXCEPT ![sCache] =
                             [mTypes |-> EmptyMap, live |-> FALSE,
                              deletes |-> @.deletes + 1]]
            /\ types' = ReleaseArena(types, sCache)
       ELSE UNCHANGED << caches, types >>
    /\ retOld' = retOld \cup retNow
    /\ retNow' = {}
    /\ pc' = [pc EXCEPT ![t] = "de_unlock"]
    /\ UNCHANGED << sCache, globalPoolAllocator, mutex, faulted, locals,
                    atEntry >>

\* SafeDelete(sCache): delete sCache (a no-op on nullptr), then
\* sCache = nullptr.
DestroyBody(t) ==
    /\ Running
    /\ pc[t] = "de_body"
    /\ IF sCache # Null
       THEN /\ caches' = [caches EXCEPT ![sCache] =
                             [mTypes |-> EmptyMap, live |-> FALSE,
                              deletes |-> @.deletes + 1]]
            /\ types' = ReleaseArena(types, sCache)
       ELSE UNCHANGED << caches, types >>
    /\ sCache' = Null
    /\ retOld' = retOld \cup retNow
    /\ retNow' = {}
    /\ pc' = [pc EXCEPT ![t] = "de_unlock"]
    /\ UNCHANGED << globalPoolAllocator, mutex, faulted, locals, atEntry >>

\* ------------------------------------------------------- TCache::getType

\* A thread calls TCache::getType with one of the attribute tuples.
GetTypeCall(t, a) ==
    /\ Running
    /\ pc[t] = "idle"
    /\ Len(types) + GetTypeInFlight < MaxTypes
    /\ pc' = [pc EXCEPT ![t] = "gt_lock"]
    /\ args' = [args EXCEPT ![t] = a]
    /\ early' = [early EXCEPT ![t] =
                    sCache # Null /\ TypeKey(a) \notin DOMAIN mTypes]
    /\ UNCHANGED << shared, mutex, faulted, key, it, type,
                    mPreviousAllocator, ret, history >>

\* sCache-> on a null sCache: the access faults and the process stops; the
\* thread never returns from the call.
NullDereference(t) ==
    /\ faulted' = TRUE
    /\ pc' = [pc EXCEPT ![t] = "fault"]

\* A find mutant: a null sCache is tested for and an instance is created.
GetTypeFindLazyInit(t) ==
    /\ Running
    /\ pc[t] = "gt_find"
    /\ \E mem \in Indeterminate :
           key' = [key EXCEPT ![t] = TypeKeyAt(mem, args[t])]
    /\ IF sCache = Null
       THEN /\ caches' = Append(caches, NewTCache)
            /\ sCache' = Len(caches) + 1
            /\ pc' = [pc EXCEPT ![t] = "gt_scoped"]
            /\ UNCHANGED << faulted, it >>
       ELSE /\ IF key'[t] \in DOMAIN mTypes
               THEN /\ it' = [it EXCEPT ![t] = mTypes[key'[t]]]
                    /\ pc' = [pc EXCEPT ![t] = "gt_hit"]
               ELSE /\ it' = it
                    /\ pc' = [pc EXCEPT ![t] = "gt_scoped"]
            /\ UNCHANGED << sCache, caches, faulted >>
    /\ UNCHANGED << types, globalPoolAllocator, mutex, args, type,
                    mPreviousAllocator, ret, early, history >>

\* A find mutant: the lookup is skipped, every call takes the miss path.
GetTypeFindAlwaysMiss(t) ==
    /\ Running
    /\ pc[t] = "gt_find"
    /\ \E mem \in Indeterminate :
           key' = [key EXCEPT ![t] = TypeKeyAt(mem, args[t])]
    /\ IF sCache = Null
       THEN /\ NullDereference(t)
            /\ it' = it
       ELSE /\ it' = it
            /\ pc' = [pc EXCEPT ![t] = "gt_scoped"]
            /\ faulted' = faulted
    /\ UNCHANGED << shared, mutex, args, type, mPreviousAllocator, ret,
                    early, history >>

\* TypeKey key(...); auto it = sCache->mTypes.find(key);
\* if (it != sCache->mTypes.end()): the branch on the lookup's result.
\* There is no test of sCache before it is dereferenced.
GetTypeFind(t) ==
    /\ Running
    /\ pc[t] = "gt_find"
    /\ \E mem \in Indeterminate :
           key' = [key EXCEPT ![t] = TypeKeyAt(mem, args[t])]
    /\ IF sCache = Null
       THEN /\ NullDereference(t)
            /\ it' = it
       ELSE /\ IF key'[t] \in DOMAIN mTypes
               THEN /\ it' = [it EXCEPT ![t] = mTypes[key'[t]]]
                    /\ pc' = [pc EXCEPT ![t] = "gt_hit"]
               ELSE /\ it' = it
                    /\ pc' = [pc EXCEPT ![t] = "gt_scoped"]
            /\ faulted' = faulted
    /\ UNCHANGED << shared, mutex, args, type, mPreviousAllocator, ret,
                    early, history >>

\* A hit mutant: the stored descriptor is realized again before it is
\* returned.
GetTypeHitRealizes(t) ==
    /\ Running
    /\ pc[t] = "gt_hit"
    /\ types' = [types EXCEPT ![it[t]].realized = @ + 1]
    /\ ret' = [ret EXCEPT ![t] = it[t]]
    /\ pc' = [pc EXCEPT ![t] = "gt_unlock"]
    /\ UNCHANGED << sCache, caches, globalPoolAllocator, mutex, faulted,
                    args, key, it, type, mPreviousAllocator, early, history >>

\* return it->second;
GetTypeHit(t) ==
    /\ Running
    /\ pc[t] = "gt_hit"
    /\ ret' = [ret EXCEPT ![t] = it[t]]
    /\ pc' = [pc EXCEPT ![t] = "gt_unlock"]
    /\ UNCHANGED << shared, mutex, faulted, args, key, it, type,
                    mPreviousAllocator, early, history >>

\* A redirect mutant: the previous target is saved, the cache's allocator
\* is not installed.
GetTypeScopedNoInstall(t) ==
    /\ Running
    /\ pc[t] = "gt_scoped"
    /\ mPreviousAllocator' =
           [mPreviousAllocator EXCEPT ![t] = globalPoolAllocator]
    /\ pc' = [pc EXCEPT ![t] = "gt_new"]
    /\ UNCHANGED << shared, mutex, faulted, args, key, it, type, ret, early,
                    history >>

\* TScopedAllocator scopedAllocator(&sCache->mAllocator): the constructor
\* saves GetGlobalPoolAllocator() and installs the cache's allocator.
GetTypeScoped(t) ==
    /\ Running
    /\ pc[t] = "gt_scoped"
    /\ mPreviousAllocator' =
           [mPreviousAllocator EXCEPT ![t] = globalPoolAllocator]
    /\ globalPoolAllocator' = CacheArena(sCache)
    /\ pc' = [pc EXCEPT ![t] = "gt_new"]
    /\ UNCHANGED << sCache, caches, types, mutex, faulted, args, key, it,
                    type, ret, early, history >>

\* The TType object `new TType(...)` yields: storage taken from the pool
\* allocator that is the ambient target at that moment, not yet realized.
NewTType(a) ==
    [args |-> a, arena |-> globalPoolAllocator, cache |-> sCache,
     realized |-> 0, live |-> TRUE]

\* TType *type = new TType(basicType, precision, qualifier, primarySize,
\*                         secondarySize);
GetTypeNew(t) ==
    /\ Running
    /\ pc[t] = "gt_new"
    /\ types' = Append(types, NewTType(args[t]))
    /\ type' = [type EXCEPT ![t] = Len(types) + 1]
    /\ pc' = [pc EXCEPT ![t] = "gt_realize"]
    /\ UNCHANGED << sCache, caches, globalPoolAllocator, mutex, faulted,
                    args, key, it, mPreviousAllocator, ret, early, history >>

\* A realize mutant: the call is missing.
GetTypeRealizeSkipped(t) ==
    /\ Running
    /\ pc[t] = "gt_realize"
    /\ pc' = [pc EXCEPT ![t] = "gt_insert"]
    /\ UNCHANGED << shared, mutex, faulted, locals, history >>

\* type->realize();
GetTypeRealize(t) ==
    /\ Running
    /\ pc[t] = "gt_realize"
    /\ types' = [types EXCEPT ![type[t]].realized = @ + 1]
    /\ pc' = [pc EXCEPT ![t] = "gt_insert"]
    /\ UNCHANGED << sCache, caches, globalPoolAllocator, mutex, faulted,
                    locals, history >>

\* An insert mutant: the map holds one entry, the new pair replaces it.
GetTypeInsertEvict(t) ==
    /\ Running
    /\ pc[t] = "gt_insert"
    /\ IF sCache = Null
       THEN /\ NullDereference(t)
            /\ caches' = caches
       ELSE /\ caches' = [caches EXCEPT ![sCache].mTypes =
                             MapInsert(EmptyMap, key[t], type[t])]
            /\ pc' = [pc EXCEPT ![t] = "gt_return"]
            /\ faulted' = faulted
    /\ UNCHANGED << sCache, types, globalPoolAllocator, mutex, locals,
                    history >>

\* sCache->mTypes.insert(std::make_pair(key, type));
GetTypeInsert(t) ==
    /\ Running
    /\ pc[t] = "gt_insert"
    /\ IF sCache = Null
       THEN /\ NullDereference(t)
            /\ caches' = caches
       ELSE /\ caches' = [caches EXCEPT ![sCache].mTypes =
                             MapInsert(@, key[t], type[t])]
            /\ pc' = [pc EXCEPT ![t] = "gt_return"]
            /\ faulted' = faulted
    /\ UNCHANGED << sCache, types, globalPoolAllocator, mutex, locals,
                    history >>

\* A return mutant: the mutex is released before scopedAllocator is
\* destroyed (the two locals declared in the other order).
GetTypeReturnUnlocks(t) ==
    /\ Running
    /\ pc[t] = "gt_return"
    /\ ret' = [ret EXCEPT ![t] = type[t]]
    /\ mutex' = Null
    /\ pc' = [pc EXCEPT ![t] = "gt_restore"]
    /\ UNCHANGED << shared, faulted, args, key, it, type,
                    mPreviousAllocator, early, history >>

\* return type;
GetTypeReturn(t) ==
    /\ Running
    /\ pc[t] = "gt_return"
    /\ ret' = [ret EXCEPT ![t] = type[t]]
    /\ pc' = [pc EXCEPT ![t] = "gt_restore"]
    /\ UNCHANGED << shared, mutex, faulted, args, key, it, type,
                    mPreviousAllocator, early, history >>

\* A restore mutant: the destructor clears the target instead of restoring
\* the saved one.
GetTypeRestoreNull(t) ==
    /\ Running
    /\ pc[t] = "gt_restore"
    /\ globalPoolAllocator' = NoPool
    /\ pc' = [pc EXCEPT ![t] = "gt_unlock"]
    /\ UNCHANGED << sCache, caches, types, mutex, faulted, locals, history >>

\* TScopedAllocator::~TScopedAllocator, run when the miss path leaves
\* getType: SetGlobalPoolAllocator(mPreviousAllocator).
GetTypeRestore(t) ==
    /\ Running
    /\ pc[t] = "gt_restore"
    /\ globalPoolAllocator' = mPreviousAllocator[t]
    /\ pc' = [pc EXCEPT ![t] = "gt_unlock"]
    /\ UNCHANGED << sCache, caches, types, mutex, faulted, locals, history >>

\* ------------------------------------------------------------ behaviours

Next ==
    \/ \E t \in Threads : Lock(t)
    \/ \E t \in Threads : Unlock(t)
    \/ \E t \in Threads : InitializeCall(t)
    \/ \E t \in Threads : InitializeBody(t)
    \/ \E t \in Threads : DestroyCall(t)
    \/ \E t \in Threads : DestroyBody(t)
    \/ \E t \in Threads : \E a \in CallTuples : GetTypeCall(t, a)
    \/ \E t \in Threads : GetTypeFind(t)
    \/ \E t \in Threads : GetTypeHit(t)
    \/ \E t \in Threads : GetTypeScoped(t)
    \/ \E t \in Threads : GetTypeNew(t)
    \/ \E t \in Threads : GetTypeRealize(t)
    \/ \E t \in Threads : GetTypeInsert(t)
    \/ \E t \in Threads : GetTypeReturn(t)
    \/ \E t \in Threads : GetTypeRestore(t)

Spec == Init /\ [][Next]_vars

\* The steps thread t takes once it owns the mutex: the statements of the
\* function it is in, up to and including the release of the mutex.
BodyStep(t) ==
    \/ Unlock(t)
    \/ InitializeBody(t)
    \/ DestroyBody(t)
    \/ GetTypeFind(t)
    \/ GetTypeHit(t)
    \/ GetTypeScoped(t)
    \/ GetTypeNew(t)
    \/ GetTypeRealize(t)
    \/ GetTypeInsert(t)
    \/ GetTypeReturn(t)
    \/ GetTypeRestore(t)

\* Fair scheduling: a thread that can run a statement eventually runs it,
\* and a thread waiting in Lock() eventually gets the mutex if it is free
\* again and again.  Nothing obliges a thread to make another call.
Fairness ==
    \A t \in Threads : WF_vars(BodyStep(t)) /\ SF_vars(Lock(t))

FairSpec == Spec /\ Fairness

\* ------------------------------------------- the key encoder on its own

\* Two threads hold arbitrary attribute tuples; nothing else has happened.
KeyInit ==
    /\ sCache = Null
    /\ caches = << >>
    /\ types = << >>
    /\ globalPoolAllocator = CallerPool
    /\ mutex = Null
    /\ faulted = FALSE
    /\ pc = [t \in Threads |-> "idle"]
    /\ \E a1 \in KeyTuples, a2 \in KeyTuples :
           args = [t \in Threads |->
                      IF t = 1 THEN a1 ELSE IF t = 2 THEN a2 ELSE NoArgs]
    /\ key = [t \in Threads |-> ZeroValue]
    /\ it = [t \in Threads |-> Null]
    /\ type = [t \in Threads |-> Null]
    /\ mPreviousAllocator = [t \in Threads |-> NoPool]
    /\ ret = [t \in Threads |-> Null]
    /\ early = [t \in Threads |-> FALSE]
    /\ retNow = {}
    /\ retOld = {}
    /\ atEntry = [t \in Threads |-> NoPool]

\* TypeKey key(basicType, precision, qualifier, primarySize, secondarySize);
KeyEncode(t) ==
    /\ pc[t] = "idle"
    /\ \E mem \in Indeterminate :
           key' = [key EXCEPT ![t] = TypeKeyAt(mem, args[t])]
    /\ pc' = [pc EXCEPT ![t] = "key_done"]
    /\ UNCHANGED << shared, mutex, faulted, args, it, type,
                    mPreviousAllocator, ret, early, history >>

KeyNext == \E t \in KeyThreads : KeyEncode(t)

KeySpec == KeyInit /\ [][KeyNext]_vars

\* ------------------------------------------------------------ properties

\* Every <<args, object>> a getType call has returned since the last
\* destroy(), with those of the calls that have reached their return
\* statement and are about to leave.
Returned ==
    retNow \cup { << args[t], ret[t] >> : t \in {u \in Threads : ret[u] # Null} }

\* C1: any two getType calls for the same attribute tuple with no destroy()
\* between them, by the same or by different threads, return the identical
\* descriptor object.
C1_InterningIdempotence ==
    \A r1 \in Returned : \A r2 \in Returned :
        r1[1] = r2[1] => r1[2] = r2[2]

\* A call that found its tuple cached is returning the object an earlier
\* call for that tuple returned.
C1_Witness ==
    \E t \in Threads :
        /\ pc[t] = "gt_unlock"
        /\ it[t] # Null
        /\ ret[t] = it[t]
        /\ << args[t], ret[t] >> \in retNow

\* The descriptors constructed for tuple a while instance i was the singleton.
ConstructedFor(i, a) ==
    {o \in DOMAIN types : types[o].cache = i /\ types[o].args = a}

\* C2: when several threads call getType for the same tuple that is not yet
\* cached, at most one descriptor for the tuple is ever constructed in the
\* instance, and every such call returns that one descriptor.
C2_OneConstruction ==
    /\ \A i \in DOMAIN caches : \A a \in CallTuples :
           Cardinality(ConstructedFor(i, a)) <= 1
    /\ \A t \in Threads :
           (early[t] /\ ret[t] # Null) =>
               /\ ConstructedFor(sCache, args[t]) = {ret[t]}
               /\ \A r \in Returned : r[1] = args[t] => r[2] = ret[t]

\* Thread t called for a tuple that was not cached, another thread
\* constructed the descriptor while t waited for the mutex, and t found it.
C2_Witness ==
    \E t \in Threads :
        /\ pc[t] = "gt_unlock"
        /\ early[t]
        /\ it[t] # Null
        /\ ret[t] = it[t]
        /\ type[t] = Null
        /\ ConstructedFor(sCache, args[t]) = {ret[t]}

InBody(t) == pc[t] \in BodyPcs \cup {"fault"}

\* C3: the mutex serializes all cache operations: never are two threads
\* inside the bodies of initialize(), destroy() or getType(), and the thread
\* inside a body is the one that owns the mutex.
C3_MutualExclusion ==
    /\ \A t1 \in Threads : \A t2 \in Threads :
           (t1 # t2 /\ InBody(t1)) => ~InBody(t2)
    /\ \A t \in Threads : InBody(t) => mutex = t

\* A getType is constructing a descriptor while another getType, for a
\* different key, waits for the mutex.
C3_Witness ==
    \E t1 \in Threads : \E t2 \in Threads :
        /\ pc[t1] = "gt_new"
        /\ pc[t2] = "gt_lock"
        /\ TypeKey(args[t1]) # TypeKey(args[t2])

\* C4: a descriptor returned after a destroy() is never one that was
\* returned before it: the instance a later initialize() constructs starts
\* empty and holds only descriptors constructed in it.
C4_IsolationAcrossSessions ==
    /\ \A r \in Returned : \A q \in retOld : r[2] # q[2]
    /\ sCache # Null =>
           \A k \in DOMAIN mTypes : types[mTypes[k]].cache = sCache

\* A tuple returned before the destroy() has been returned again, after a
\* new initialize(), as another object.
C4_Witness ==
    \E r \in retNow : \E q \in retOld :
        /\ r[1] = q[1]
        /\ r[2] # q[2]
        /\ sCache # Null
        /\ types[r[2]].cache = sCache

\* C5: initialize() run while an instance exists changes nothing: the
\* singleton, every instance's mapping, the descriptors and the arenas stay
\* as they were, and no instance is constructed.
C5_InitializeIdempotent ==
    [][ \A t \in Threads :
            (pc[t] = "in_body" /\ pc'[t] = "in_unlock" /\ sCache # Null) =>
                UNCHANGED << sCache, caches, types, globalPoolAllocator >>
      ]_vars

\* initialize() has run its body on an instance that holds cached entries.
C5_Witness ==
    \E t \in Threads :
        /\ pc[t] = "in_unlock"
        /\ sCache # Null
        /\ DOMAIN mTypes # {}
        /\ Len(caches) = 1

\* C6: destroy() leaves sCache null; if an instance existed it is deleted,
\* its mapping released and every descriptor of its arena released; if none
\* existed, nothing changes.
C6_DestroyReleases ==
    [][ \A t \in Threads :
            (pc[t] = "de_body" /\ pc'[t] = "de_unlock") =>
                /\ sCache' = Null
                /\ globalPoolAllocator' = globalPoolAllocator
                /\ IF sCache # Null
                   THEN /\ ~caches'[sCache].live
                        /\ caches'[sCache].mTypes = EmptyMap
                        /\ \A o \in DOMAIN types :
                               types[o].arena = CacheArena(sCache) =>
                                   ~types'[o].live
                   ELSE UNCHANGED << caches, types >>
      ]_vars

\* destroy() has deleted an instance whose arena held a descriptor.
C6_Witness ==
    \E t \in Threads :
        /\ pc[t] = "de_unlock"
        /\ sCache = Null
        /\ retNow = {}
        /\ \E i \in DOMAIN caches : \E o \in DOMAIN types :
               /\ ~caches[i].live
               /\ types[o].arena = CacheArena(i)
               /\ ~types[o].live

\* C7: two attribute tuples whose fields all lie in the one-byte domain and
\* that differ in at least one field have different keys.
C7_KeyUniqueness ==
    \A t1 \in KeyThreads : \A t2 \in KeyThreads :
        ( /\ pc[t1] = "key_done"
          /\ pc[t2] = "key_done"
          /\ InDomain(args[t1])
          /\ InDomain(args[t2])
          /\ args[t1] # args[t2] ) => key[t1] # key[t2]

\* Two in-domain tuples that differ in secondarySize alone have been encoded.
C7_Witness ==
    /\ pc[1] = "key_done"
    /\ pc[2] = "key_done"
    /\ InDomain(args[1])
    /\ InDomain(args[2])
    /\ \A i \in 1..4 : args[1][i] = args[2][i]
    /\ args[1][5] # args[2][5]
    /\ key[1] # key[2]

\* C8: within one instance, calls for different attribute tuples return
\* different descriptors, stored under different keys: no descriptor is the
\* value of two keys, and each returned descriptor is stored under a key of
\* its own.
C8_DistinctTuplesDistinctObjects ==
    /\ \A r1 \in Returned : \A r2 \in Returned :
           r1[1] # r2[1] => r1[2] # r2[2]
    /\ sCache # Null =>
           /\ \A k1 \in DOMAIN mTypes : \A k2 \in DOMAIN mTypes :
                  k1 # k2 => mTypes[k1] # mTypes[k2]
           /\ \A r \in retNow : \E k \in DOMAIN mTypes : mTypes[k] = r[2]

\* The tuples that differ in basicType alone have both been returned, as two
\* objects under two keys.
C8_Witness ==
    \E r1 \in retNow : \E r2 \in retNow :
        /\ r1[1] = <<1, 3, 11, 1, 1>>
        /\ r2[1] = <<2, 3, 11, 1, 1>>
        /\ r1[2] # r2[2]
        /\ sCache # Null
        /\ \E k1 \in DOMAIN mTypes : \E k2 \in DOMAIN mTypes :
               k1 # k2 /\ mTypes[k1] = r1[2] /\ mTypes[k2] = r2[2]

\* C9: while the singleton stays the same instance, no step removes a key
\* from its mapping or changes the descriptor stored under a key.
C9_NoRemovalNoUpdate ==
    [][ (sCache # Null /\ sCache' = sCache) =>
            \A k \in DOMAIN mTypes :
                k \in DOMAIN mTypes' /\ mTypes'[k] = mTypes[k]
      ]_vars

\* An insert has just added a second entry to a mapping and kept the first.
C9_Witness ==
    \E t \in Threads :
        /\ pc[t] = "gt_return"
        /\ Cardinality(DOMAIN mTypes) = 2
        /\ mTypes[key[t]] = type[t]

\* The positions of getType after the lookup.
AfterFindPcs == GetTypePcs \ {"gt_lock", "gt_find"}

\* C10: with an instance present getType's lookup proceeds and the call
\* returns a live descriptor of the tuple asked for; with none present the
\* lookup dereferences the null sCache: the call faults, returns nothing and
\* creates no instance.
C10_GetTypePrecondition ==
    /\ [](\A t \in Threads :
            /\ pc[t] \in AfterFindPcs => (sCache # Null /\ ~faulted)
            /\ pc[t] = "fault" =>
                   (faulted /\ sCache = Null /\ ret[t] = Null))
    /\ [][ \A t \in Threads :
            /\ (pc[t] = "gt_find" /\ pc'[t] # "gt_find") =>
                   IF sCache = Null
                   THEN /\ pc'[t] = "fault"
                        /\ UNCHANGED << shared, ret, history >>
                   ELSE pc'[t] \in {"gt_hit", "gt_scoped"}
            /\ (pc[t] = "gt_unlock" /\ pc'[t] = "idle") =>
                   /\ ret[t] \in DOMAIN types
                   /\ types[ret[t]].live
                   /\ types[ret[t]].args = args[t]
                   /\ << args[t], ret[t] >> \in retNow'
         ]_vars

\* A getType ran its lookup after another thread's destroy() and faulted.
C10_Witness ==
    \E t \in Threads :
        /\ pc[t] = "fault"
        /\ faulted
        /\ sCache = Null
        /\ Len(caches) > 0
        /\ early[t]

\* C11: encoding the same attribute tuple twice yields identical keys,
\* whatever the storage of either key held before: every byte of the key is
\* zeroed before the components are written, so the bytes no component
\* covers are zero.
C11_KeyDeterminism ==
    /\ \A t1 \in KeyThreads : \A t2 \in KeyThreads :
           ( /\ pc[t1] = "key_done"
             /\ pc[t2] = "key_done"
             /\ args[t1] = args[t2] ) => key[t1] = key[t2]
    /\ \A t \in KeyThreads :
           pc[t] = "key_done" =>
               \A i \in (NumComponents + 1)..ValueBytes : key[t][i] = 0

\* The same tuple has been encoded twice, with the same result.
C11_Witness ==
    /\ pc[1] = "key_done"
    /\ pc[2] = "key_done"
    /\ args[1] = args[2]
    /\ key[1] = key[2]
    /\ key[1][1] = MaxEnumValue

\* The positions of getType at which its TScopedAllocator object is alive:
\* the cache's allocator has been installed and not yet replaced.
RedirectPcs == {"gt_new", "gt_realize", "gt_insert", "gt_return", "gt_restore"}
RedirectActive(t) == pc[t] \in RedirectPcs

TouchesTarget(u) ==
    pc[u] \in {"gt_scoped", "gt_new", "gt_restore"} /\ pc'[u] # pc[u]

C14_RedirectInsideLock ==
    /\ \A t \in Threads : RedirectActive(t) => mutex = t
    /\ mutex = Null => globalPoolAllocator \in CallerPools
    /\ globalPoolAllocator \notin CallerPools =>
           \E t \in Threads : RedirectActive(t) /\ mutex = t

\* A miss is about to restore the target and still owns the mutex.
C14_Witness ==
    \E t \in Threads :
        /\ pc[t] = "gt_restore"
        /\ mutex = t
        /\ globalPoolAllocator = CacheArena(sCache)
        /\ mPreviousAllocator[t] \in CallerPools

\* A step of thread t on the hit path: the lookup that finds the key, the
\* return statement, the release of the mutex.
HitStep(t) ==
    \/ pc[t] = "gt_find" /\ pc'[t] = "gt_hit"
    \/ pc[t] = "gt_hit" /\ pc'[t] # "gt_hit"
    \/ pc[t] = "gt_unlock" /\ it[t] # Null /\ pc'[t] = "idle"

\* C15: a getType that hits returns the stored reference and changes
\* nothing: no descriptor is constructed or realized, the mapping and the
\* ambient target stay as they are, no redirect is made, and the mutex is
\* released when the call returns.
C15_HitChangesNothing ==
    /\ [][ \A t \in Threads :
             HitStep(t) =>
                 /\ UNCHANGED << sCache, caches, types, globalPoolAllocator >>
                 /\ pc[t] = "gt_find" => it'[t] = mTypes[key'[t]]
                 /\ pc[t] = "gt_hit" =>
                        (ret'[t] = it[t] /\ pc'[t] = "gt_unlock")
                 /\ pc'[t] = "idle" =>
                        (mutex' = Null /\ << args[t], it[t] >> \in retNow')
         ]_vars
    /\ [](\A t \in Threads :
            it[t] # Null =>
                /\ type[t] = Null
                /\ mPreviousAllocator[t] = NoPool
                /\ pc[t] \in {"gt_hit", "gt_unlock"})

\* A hit on a mapping of two entries is about to return the stored object.
C15_Witness ==
    \E t \in Threads :
        /\ pc[t] = "gt_unlock"
        /\ it[t] # Null
        /\ ret[t] = it[t]
        /\ Cardinality(DOMAIN mTypes) = 2
        /\ types[it[t]].args = args[t]

\* The descriptors stored in the mapping of any instance.
Stored ==
    UNION { { caches[i].mTypes[k] : k \in DOMAIN caches[i].mTypes } :
            i \in DOMAIN caches }

\* C16: every descriptor is realized exactly once, after its construction
\* and before it is inserted and returned: no descriptor is ever realized
\* twice, the only unrealized descriptor is the one a miss has just
\* constructed, and every stored or returned descriptor is realized once.
C16_RealizedOnce ==
    /\ \A o \in DOMAIN types :
           /\ types[o].realized <= 1
           /\ types[o].realized = 0 =>
                  \E t \in Threads : pc[t] = "gt_realize" /\ type[t] = o
    /\ \A o \in Stored : types[o].realized = 1
    /\ \A r \in Returned \cup retOld : types[r[2]].realized = 1

\* A miss has realized its descriptor and has not inserted it yet.
C16_Witness ==
    \E t \in Threads :
        /\ pc[t] = "gt_insert"
        /\ types[type[t]].realized = 1
        /\ type[t] \notin Stored
        /\ key[t] \notin DOMAIN mTypes

\* C17: every descriptor of the mapping was allocated from the allocator
\* of the current instance, none from a caller's pool; and a descriptor is
\* allocated only by the `new TType` of a miss, from the allocator of the
\* instance it is constructed for.
C17_AllocatedFromCacheArena ==
    /\ [](sCache # Null =>
            \A k \in DOMAIN mTypes :
                types[mTypes[k]].arena = CacheArena(sCache))
    /\ [](\A o \in DOMAIN types :
            /\ types[o].arena \notin CallerPools
            /\ types[o].arena = CacheArena(types[o].cache))
    /\ [][ types' # types /\ Len(types') # Len(types) =>
             \E t \in Threads :
                 /\ pc[t] = "gt_new"
                 /\ pc'[t] = "gt_realize"
                 /\ it[t] = Null
                 /\ Len(types') = Len(types) + 1
                 /\ types'[Len(types')].arena = CacheArena(sCache)
         ]_vars

\* The mapping holds a descriptor from the instance's allocator while the
\* ambient target is a caller's pool again.
C17_Witness ==
    /\ sCache # Null
    /\ mutex = Null
    /\ globalPoolAllocator = <<"caller", 1>>
    /\ \E k \in DOMAIN mTypes : types[mTypes[k]].arena = CacheArena(sCache)

\* Some thread that is inside a call can take its next step.
CanProgress == ENABLED (\E t \in Threads : Lock(t) \/ BodyStep(t))

C19_OneLiveInstance ==
    /\ \A i \in DOMAIN caches :
           /\ caches[i].live <=> i = sCache
           /\ caches[i].deletes = IF caches[i].live THEN 0 ELSE 1
    /\ Cardinality({i \in DOMAIN caches : caches[i].live}) <= 1
    /\ sCache # Null => sCache \in DOMAIN caches

\* A second instance has been constructed after the first was deleted,
\* while another thread's destroy() waits for the mutex.
C19_Witness ==
    \E t \in Threads : \E u \in Threads :
        /\ pc[t] = "in_unlock"
        /\ pc[u] = "de_lock"
        /\ Len(caches) = 2
        /\ sCache = 2
        /\ ~caches[1].live
        /\ caches[1].deletes = 1

\* C20: every descriptor returned since the last destroy() is live; every
\* descriptor returned before it has been released, whoever holds the
\* reference; and the only step that releases a descriptor is the body of
\* a destroy() on an existing instance, which releases all of that
\* instance's descriptors.
C20_LiveUntilDestroy ==
    /\ [](\A r \in Returned : types[r[2]].live)
    /\ [](\A r \in retOld : ~types[r[2]].live)
    /\ [][ (\E o \in DOMAIN types : types[o].live /\ ~types'[o].live) =>
             \E t \in Threads :
                 /\ pc[t] = "de_body"
                 /\ pc'[t] = "de_unlock"
                 /\ sCache # Null
                 /\ \A o \in DOMAIN types :
                        types[o].cache = sCache => ~types'[o].live
         ]_vars

\* A destroy() has released two descriptors that had been returned to
\* callers.
C20_Witness ==
    \E t \in Threads :
        /\ pc[t] = "de_unlock"
        /\ Cardinality(retOld) = 2
        /\ \A r \in retOld : ~types[r[2]].live
        /\ retNow = {}

====
